---- MODULE Spec2Model ----
(***************************************************************************)
(* Model of the SPS30 particulate-matter sensor driver                     *)
(* (src/matter_sensor.py): the byte-stuffing reversal, the length-aware    *)
(* read loop, and the six driver operations running against a UART whose   *)
(* peer (the sensor) sends its replies concurrently with the driver.       *)
(* Bytes are the integers 0..255; byte strings are sequences of bytes.     *)
(***************************************************************************)
EXTENDS Integers, Sequences, FiniteSets, TLC

VARIABLES
    op,         \* the driver method being executed ("none" before the first call)
    pc,         \* position inside that method
    rx,         \* bytes buffered in the UART input, oldest first
    pending,    \* bytes the sensor has queued and not yet put on the wire
    written,    \* frames passed to uart.write during the current invocation
    flushed,    \* TRUE once flush_input was called in the current invocation
    length,     \* read(): the local `length`, the remaining deficit
    want,       \* read(): the value of `length` at entry
    data,       \* read(): the bytearray `data`; for single reads, destuffed raw
    consumed,   \* concatenation of the raw chunks returned by uart.read(n)
    reads,      \* number of uart.read(n) calls of this invocation that returned,
                \* counted up to ReadsCap
    timedOut,   \* TRUE once a uart.read(n) of this invocation returned None
    readret,    \* value returned by read(length)
    result,     \* value returned by the driver method
    preloaded,  \* TRUE when the method was called with the documented 47-byte
                \* measurement response, and nothing else, in the UART input
    stream,     \* read-loop specification: the raw stream offered to read()
    stale,      \* how many bytes at the front of rx \o pending the sensor sent
                \* in reply to requests of earlier invocations
    tookStale,  \* TRUE once a uart.read(n) of this invocation returned such bytes
    drained,    \* TRUE once flush_input called uart.read() in this invocation
    emptyOnTimeout, \* TRUE for a transport whose read returns zero bytes,
                \* not None, when nothing arrives before its deadline
    payload,    \* codec specification: the byte string chosen as input
    viaStuff,   \* codec specification: TRUE when the input went through stuffing
    stuffed,    \* codec specification: the raw string handed to the reversal
    unstuffed   \* codec specification: result of reverse_byte_stuffing

vars == <<op, pc, rx, pending, written, flushed, length, want, data, consumed,
          reads, timedOut, readret, result, preloaded, stream, stale, tookStale,
          drained, emptyOnTimeout, payload, viaStuff, stuffed, unstuffed>>

codecVars == <<payload, viaStuff, stuffed, unstuffed>>

----------------------------------------------------------------------------
(* Bounds of the model *)

\* longest byte string given to the codec specification
MaxLen == 3
\* longest raw stream offered to read() in the read-loop specification
MaxStream == 4
\* largest `length` asked of read() in the read-loop specification
MaxWant == 3
\* the count of uart.read(n) calls stops here: ReadsCap stands for "or more"
ReadsCap == 2
\* longest payload handed to the measurement decoder in its specification
MaxPayloadLen == 42

----------------------------------------------------------------------------
(* Values *)

None == [kind |-> "None"]
Bytes(s) == [kind |-> "bytes", val |-> s]

\* the bytes the byte-stuffing is about, and two ordinary ones
CodecAlphabet == {126, 125, 17, 19, 94, 93, 49, 51, 1}
ReadAlphabet == {125, 94, 93, 49, 1}

RECURSIVE SeqsUpTo(_, _)
SeqsUpTo(S, n) ==
    IF n = 0 THEN {<<>>}
    ELSE LET shorter == SeqsUpTo(S, n - 1)
         IN  shorter \cup {Append(s, b) : s \in {t \in shorter : Len(t) = n - 1}, b \in S}

Min(a, b) == IF a < b THEN a ELSE b

Max(a, b) == IF a > b THEN a ELSE b

Take(s, n) == SubSeq(s, 1, Min(n, Len(s)))
Drop(s, n) == SubSeq(s, Min(n, Len(s)) + 1, Len(s))

----------------------------------------------------------------------------
(* Frame codec *)

\* b'\xAA\xBB' in raw
Contains(raw, a, b) ==
    \E i \in 1..(Len(raw) - 1) : raw[i] = a /\ raw[i + 1] = b

\* raw.replace(b'\xAA\xBB', b'\xCC'): non-overlapping occurrences, left to
\* right, the replacement is not rescanned
RECURSIVE Replace(_, _, _, _)
Replace(raw, a, b, c) ==
    IF Len(raw) = 0 THEN <<>>
    ELSE IF Len(raw) >= 2 /\ raw[1] = a /\ raw[2] = b
         THEN <<c>> \o Replace(SubSeq(raw, 3, Len(raw)), a, b, c)
         ELSE <<raw[1]>> \o Replace(Tail(raw), a, b, c)

ReplaceIfIn(raw, a, b, c) ==
    IF Contains(raw, a, b) THEN Replace(raw, a, b, c) ELSE raw

reverse_byte_stuffing(raw) ==
    LET r1 == ReplaceIfIn(raw, 125, 94, 126)
        r2 == ReplaceIfIn(r1, 125, 93, 125)
        r3 == ReplaceIfIn(r2, 125, 49, 17)
        r4 == ReplaceIfIn(r3, 125, 51, 19)
    IN  r4

\* forward byte-stuffing of one byte, as the sensor's protocol defines it
StuffByte(b) ==
    CASE b = 126 -> <<125, 94>>
      [] b = 125 -> <<125, 93>>
      [] b = 17  -> <<125, 49>>
      [] b = 19  -> <<125, 51>>
      [] OTHER   -> <<b>>

RECURSIVE ForwardStuff(_)
ForwardStuff(p) ==
    IF Len(p) = 0 THEN <<>> ELSE StuffByte(p[1]) \o ForwardStuff(Tail(p))

----------------------------------------------------------------------------
(* Codec specification: reverse_byte_stuffing applied to a chosen byte     *)
(* string, either directly or after forward stuffing                       *)

DriverIdle ==
    /\ rx = <<>> /\ pending = <<>> /\ written = <<>> /\ flushed = FALSE
    /\ length = 0 /\ want = 0 /\ data = <<>> /\ consumed = <<>>
    /\ reads = 0 /\ timedOut = FALSE /\ readret = None /\ result = None
    /\ preloaded = FALSE /\ stream = <<>>
    /\ stale = 0 /\ tookStale = FALSE /\ drained = FALSE
    /\ emptyOnTimeout = FALSE

CodecIdle ==
    /\ payload = <<>> /\ viaStuff = FALSE /\ stuffed = <<>> /\ unstuffed = <<>>

InitCodec ==
    /\ op = "reverse_byte_stuffing" /\ pc = "input"
    /\ DriverIdle
    /\ payload \in SeqsUpTo(CodecAlphabet, MaxLen)
    /\ viaStuff = FALSE /\ stuffed = <<>> /\ unstuffed = <<>>

\* the input is a payload: it is stuffed before it is handed to the reversal
StuffPayload ==
    /\ op = "reverse_byte_stuffing" /\ pc = "input"
    /\ stuffed' = ForwardStuff(payload)
    /\ viaStuff' = TRUE
    /\ pc' = "raw"
    /\ UNCHANGED <<op, rx, pending, written, flushed, length, want, data,
                   consumed, reads, timedOut, readret, result, preloaded, stream,
                   stale, tookStale, drained, emptyOnTimeout,
                   payload, unstuffed>>

\* the input is a raw string: it is handed to the reversal as it is
TakeRaw ==
    /\ op = "reverse_byte_stuffing" /\ pc = "input"
    /\ stuffed' = payload
    /\ viaStuff' = FALSE
    /\ pc' = "raw"
    /\ UNCHANGED <<op, rx, pending, written, flushed, length, want, data,
                   consumed, reads, timedOut, readret, result, preloaded, stream,
                   stale, tookStale, drained, emptyOnTimeout,
                   payload, unstuffed>>

Destuff ==
    /\ op = "reverse_byte_stuffing" /\ pc = "raw"
    /\ unstuffed' = reverse_byte_stuffing(stuffed)
    /\ pc' = "done"
    /\ UNCHANGED <<op, rx, pending, written, flushed, length, want, data,
                   consumed, reads, timedOut, readret, result, preloaded, stream,
                   stale, tookStale, drained, emptyOnTimeout,
                   payload, viaStuff, stuffed>>

NextCodec == StuffPayload \/ TakeRaw \/ Destuff

SpecCodec == InitCodec /\ [][NextCodec]_vars

----------------------------------------------------------------------------
(* The transport and the read loop *)

\* the sensor's next queued byte arrives in the UART input buffer
SensorDeliver ==
    /\ pending # <<>>
    /\ rx' = Append(rx, Head(pending))
    /\ pending' = Tail(pending)
    /\ UNCHANGED <<op, pc, written, flushed, length, want, data, consumed,
                   reads, timedOut, readret, result, preloaded, stream,
                   stale, tookStale, drained, emptyOnTimeout>>
    /\ UNCHANGED codecVars

\* data.extend(raw) with the assignment `data = raw` in its place
ExtendOverwrite(d, raw) == raw

\* data.extend(raw)
Extend(d, raw) == d \o raw

\* a timeout that hands back what was accumulated
ReadTimeoutPartial(d) == Bytes(d)

\* `if raw is None: return None`
ReadTimeoutValue(d) == None

\* a read(length) whose timeout sends read_values back to its uart.write
AfterReadRetry ==
    IF op = "read" THEN "done" ELSE IF length > 0 THEN "write" ELSE "rv_check"

\* where read(length) returns to
AfterRead == IF op = "read" THEN "done" ELSE "rv_check"

\* the deficit reduced by the raw size of the chunk
DeficitRaw(len, raw, destuffed) == len - Len(raw)

\* length = length - len(raw), `raw` being the destuffed chunk by then
Deficit(len, raw, destuffed) == len - Len(destuffed)

\* one iteration of `while length > 0` in which uart.read(length) returns
\* the bytes that arrived, at most `length` of them
ReadChunk ==
    /\ pc = "read" /\ length > 0
    /\ rx # <<>>
    /\ LET raw == Take(rx, length)
           destuffed == reverse_byte_stuffing(raw)
       IN  /\ rx' = Drop(rx, length)
           /\ consumed' = consumed \o raw
           /\ data' = Extend(data, destuffed)
           /\ length' = Deficit(length, raw, destuffed)
           /\ stale' = Max(stale - Len(raw), 0)
    /\ tookStale' = (tookStale \/ stale > 0)
    /\ reads' = Min(reads + 1, ReadsCap)
    /\ UNCHANGED <<op, pc, pending, written, flushed, want, timedOut, readret,
                   result, preloaded, stream, drained, emptyOnTimeout>>
    /\ UNCHANGED codecVars

\* one iteration in which no byte arrives before the UART timeout:
\* uart.read(length) returns None and read returns None
ReadTimeout ==
    /\ pc = "read" /\ length > 0
    /\ rx = <<>>
    /\ ~emptyOnTimeout
    /\ timedOut' = TRUE
    /\ reads' = Min(reads + 1, ReadsCap)
    /\ readret' = ReadTimeoutValue(data)
    /\ pc' = AfterRead
    /\ result' = IF op = "read" THEN readret' ELSE result
    /\ UNCHANGED <<op, rx, pending, written, flushed, length, want, data,
                   consumed, preloaded, stream,
                   stale, tookStale, drained, emptyOnTimeout>>
    /\ UNCHANGED codecVars

\* the loop condition fails: `return data`
ReadReturn ==
    /\ pc = "read" /\ length <= 0
    /\ readret' = Bytes(data)
    /\ pc' = AfterRead
    /\ result' = IF op = "read" THEN readret' ELSE result
    /\ UNCHANGED <<op, rx, pending, written, flushed, length, want, data,
                   consumed, reads, timedOut, preloaded, stream,
                   stale, tookStale, drained, emptyOnTimeout>>
    /\ UNCHANGED codecVars

\* read(length) called on its own, with a raw stream the sensor is sending
InitRead ==
    /\ op = "read" /\ pc = "read"
    /\ want \in 1..MaxWant /\ length = want
    /\ stream \in SeqsUpTo(ReadAlphabet, MaxStream)
    /\ pending = stream /\ rx = <<>>
    /\ written = <<>> /\ flushed = FALSE /\ data = <<>> /\ consumed = <<>>
    /\ reads = 0 /\ timedOut = FALSE /\ readret = None /\ result = None
    /\ preloaded = FALSE
    /\ stale = 0 /\ tookStale = FALSE /\ drained = FALSE
    /\ emptyOnTimeout = FALSE
    /\ CodecIdle

NextRead == SensorDeliver \/ ReadChunk \/ ReadTimeout \/ ReadReturn

SpecRead == InitRead /\ [][NextRead]_vars

----------------------------------------------------------------------------
(* The read loop on either kind of transport, with the scheduling stated:  *)
(* the driver keeps executing and the bytes the sensor queued arrive       *)

\* uart.read(length) returns zero bytes, which is not None
ReadEmpty ==
    /\ pc = "read" /\ length > 0
    /\ rx = <<>>
    /\ emptyOnTimeout
    /\ reads' = Min(reads + 1, ReadsCap)
    /\ pc' = "read_empty"
    /\ UNCHANGED <<op, rx, pending, written, flushed, length, want, data,
                   consumed, timedOut, readret, result, preloaded, stream,
                   stale, tookStale, drained, emptyOnTimeout>>
    /\ UNCHANGED codecVars

\* the rest of that iteration: nothing is appended, `length` keeps its
\* value, and the loop condition is tested again
ReadEmptyContinue ==
    /\ pc = "read_empty"
    /\ data' = Extend(data, reverse_byte_stuffing(<<>>))
    /\ length' = Deficit(length, <<>>, reverse_byte_stuffing(<<>>))
    /\ pc' = "read"
    /\ UNCHANGED <<op, rx, pending, written, flushed, want, consumed, reads,
                   timedOut, readret, result, preloaded, stream,
                   stale, tookStale, drained, emptyOnTimeout>>
    /\ UNCHANGED codecVars

InitReadLive ==
    /\ op = "read" /\ pc = "read"
    /\ want \in 1..MaxWant /\ length = want
    /\ stream \in SeqsUpTo(ReadAlphabet, MaxStream)
    /\ pending = stream /\ rx = <<>>
    /\ written = <<>> /\ flushed = FALSE /\ data = <<>> /\ consumed = <<>>
    /\ reads = 0 /\ timedOut = FALSE /\ readret = None /\ result = None
    /\ preloaded = FALSE
    /\ stale = 0 /\ tookStale = FALSE /\ drained = FALSE
    /\ emptyOnTimeout \in BOOLEAN
    /\ CodecIdle

NextReadLive ==
    \/ SensorDeliver
    \/ ReadChunk
    \/ ReadTimeout
    \/ ReadReturn
    \/ ReadEmpty
    \/ ReadEmptyContinue

SpecReadLive ==
    /\ InitReadLive
    /\ [][NextReadLive]_vars
    /\ WF_vars(SensorDeliver)
    /\ WF_vars(ReadChunk)
    /\ WF_vars(ReadTimeout)
    /\ WF_vars(ReadReturn)
    /\ WF_vars(ReadEmpty)
    /\ WF_vars(ReadEmptyContinue)

----------------------------------------------------------------------------
(* Request frames, as the driver writes them *)

StartFrame == <<126, 0, 0, 2, 1, 3, 249, 126>>
StopFrame == <<126, 0, 1, 0, 254, 126>>
ReadValuesFrame == <<126, 0, 3, 0, 252, 126>>
ProductTypeFrame == <<126, 0, 208, 1, 0, 46, 126>>
SerialNumberFrame == <<126, 0, 208, 1, 3, 43, 126>>
FirmwareVersionFrame == <<126, 0, 209, 0, 46, 126>>

WriteOnlyOps == {"start", "stop"}
SingleReadOps == {"read_product_type", "read_serial_number", "read_firmware_version"}
ReadOps == {"read_values"} \cup SingleReadOps
Ops == WriteOnlyOps \cup ReadOps

\* start() with the read-measurements frame in its place
RequestFrameStartSwapped(o) ==
    CASE o = "start" -> ReadValuesFrame
      [] o = "stop" -> StopFrame
      [] o = "read_values" -> ReadValuesFrame
      [] o = "read_product_type" -> ProductTypeFrame
      [] o = "read_serial_number" -> SerialNumberFrame
      [] o = "read_firmware_version" -> FirmwareVersionFrame

\* the two device-information frames taken one for the other
RequestFrameInfoSwapped(o) ==
    CASE o = "start" -> StartFrame
      [] o = "stop" -> StopFrame
      [] o = "read_values" -> ReadValuesFrame
      [] o = "read_product_type" -> SerialNumberFrame
      [] o = "read_serial_number" -> ProductTypeFrame
      [] o = "read_firmware_version" -> FirmwareVersionFrame

\* the argument of uart.write in each method
RequestFrame(o) ==
    CASE o = "start" -> StartFrame
      [] o = "stop" -> StopFrame
      [] o = "read_values" -> ReadValuesFrame
      [] o = "read_product_type" -> ProductTypeFrame
      [] o = "read_serial_number" -> SerialNumberFrame
      [] o = "read_firmware_version" -> FirmwareVersionFrame

\* uart.read(24) in read_firmware_version too
SingleReadLengthAll24(o) == 24

\* the bound of the single uart.read(n) of the identification reads
SingleReadLength(o) == IF o = "read_firmware_version" THEN 14 ELSE 24

\* the argument of read() in read_values
MeasurementFrameLength == 47

----------------------------------------------------------------------------
(* The sensor: the frames it answers with *)

RECURSIVE SumSeq(_)
SumSeq(s) == IF Len(s) = 0 THEN 0 ELSE s[1] + SumSeq(Tail(s))

\* SHDLC checksum: bitwise NOT of the low byte of the sum
Checksum(body) == 255 - (SumSeq(body) % 256)

\* a response frame: address, command, state, length, payload, checksum,
\* byte-stuffed between the two 0x7E markers
SensorFrame(cmd, pl) ==
    LET body == <<0, cmd, 0, Len(pl)>> \o pl
    IN  <<126>> \o ForwardStuff(Append(body, Checksum(body))) \o <<126>>

ZeroData == [i \in 1..40 |-> 0]

\* ten fields, of which field k holds the four bytes f
DataWithField(k, f) ==
    [i \in 1..40 |-> IF i \in (4 * k - 3)..(4 * k) THEN f[i - 4 * (k - 1)] ELSE 0]

\* measurement payloads the sensor reports: all zero, and one with
\* 0x427E0000 (63.5) in the tenth field, whose second byte needs stuffing
MeasurementData == {ZeroData, DataWithField(10, <<66, 126, 0, 0>>)}

EmptyResponse == SensorFrame(3, <<>>)
MeasurementResponse(d) == SensorFrame(3, d)

\* "00080000" and a 16-character serial number, each NUL-terminated
ProductTypeText == <<48, 48, 48, 56, 48, 48, 48, 48>>
SerialNumberText == <<53, 65, 48, 50, 55, 66, 49, 57, 48, 48, 52, 69, 67, 51, 56, 68>>

Responses(o) ==
    CASE o = "start" -> {SensorFrame(0, <<>>)}
      [] o = "stop" -> {SensorFrame(1, <<>>)}
      [] o = "read_values" ->
            {EmptyResponse} \cup {MeasurementResponse(d) : d \in MeasurementData}
      [] o = "read_product_type" -> {SensorFrame(208, Append(ProductTypeText, 0))}
      [] o = "read_serial_number" -> {SensorFrame(208, Append(SerialNumberText, 0))}
      [] o = "read_firmware_version" ->
            {SensorFrame(209, <<1, 2, 0, 7, 0, 2, 0>>),
             SensorFrame(209, <<2, 255, 0, 7, 0, 2, 0>>)}

\* most bytes an answer and the UART input hold together; a request whose
\* answer would exceed it stays unanswered
MaxInFlight == 48

----------------------------------------------------------------------------
(* Decoding *)

\* raw[a:-b] for a, b > 0
PySlice(raw, a, b) == SubSeq(raw, a + 1, Len(raw) - b)

\* one big-endian IEEE-754 single: sign, biased exponent, fraction
FloatOf(b1, b2, b3, b4) ==
    [sign |-> b1 \div 128,
     exp  |-> (b1 % 128) * 2 + (b2 \div 128),
     frac |-> (b2 % 128) * 65536 + b3 * 256 + b4]

\* 0.0
ZeroFloat == [sign |-> 0, exp |-> 0, frac |-> 0]

Raise(e) == [kind |-> "raise", exc |-> e]
Tuple(t) == [kind |-> "tuple", val |-> t]
Str(t) == [kind |-> "str", val |-> t]

\* struct.unpack(">ffffffffff", raw_data). A buffer shorter than 40 bytes
\* raises everywhere; a longer one raises where unpack demands the exact
\* size (CPython) and is unpacked from its first 40 bytes where unpack only
\* demands a buffer that is big enough (MicroPython): `exact` is the build
UnpackFloats(raw_data, exact) ==
    IF Len(raw_data) = 40 \/ (~exact /\ Len(raw_data) > 40)
    THEN Tuple([i \in 1..10 |-> FloatOf(raw_data[4 * i - 3], raw_data[4 * i - 2],
                                        raw_data[4 * i - 1], raw_data[4 * i])])
    ELSE Raise("struct.error")

\* the tuple of the `except` branch
FallbackTuple == Tuple([i \in 1..10 |-> ZeroFloat])

\* raw[4:-3] in the place of raw[5:-2]
MeasurementSliceShifted(raw) == PySlice(raw, 4, 3)

\* raw_data = raw[5:-2]
MeasurementSlice(raw) == PySlice(raw, 5, 2)

\* struct.unpack without the try/except around it
DecodePayloadNoExcept(raw_data, exact) == UnpackFloats(raw_data, exact)

\* the try/except around struct.unpack in read_values
DecodePayload(raw_data, exact) ==
    LET unpacked == UnpackFloats(raw_data, exact)
    IN  IF unpacked.kind = "raise" THEN FallbackTuple ELSE unpacked

\* slice and decode, as read_values does with the buffer read(47) returned
DecodeMeasurement(raw, exact) == DecodePayload(MeasurementSlice(raw), exact)

\* raw[5:-3].decode('ascii')
DecodeText(raw) ==
    LET text == PySlice(raw, 5, 3)
    IN  IF \A i \in 1..Len(text) : text[i] < 128
        THEN Str(text)
        ELSE Raise("UnicodeError")

Digit == <<"0", "1", "2", "3", "4", "5", "6", "7", "8", "9">>

RECURSIVE NatToStr(_)
NatToStr(n) ==
    IF n < 10 THEN Digit[n + 1] ELSE NatToStr(n \div 10) \o Digit[(n % 10) + 1]

\* str(i) for an int
IntToStr(i) == IF i < 0 THEN "-" \o NatToStr(0 - i) ELSE NatToStr(i)

\* format code "B" in the place of "b": the byte as it is
UnsignedByte(b) == b

\* format code "b": a signed 8-bit integer
SignedByte(b) == IF b >= 128 THEN b - 256 ELSE b

\* struct.unpack(">bbbbbbb", raw[5:-2]) and the formatting of the first two;
\* `exact` as in UnpackFloats
DecodeFirmware(raw, exact) ==
    LET d == PySlice(raw, 5, 2)
    IN  IF Len(d) = 7 \/ (~exact /\ Len(d) > 7)
        THEN Str(IntToStr(SignedByte(d[1])) \o "." \o IntToStr(SignedByte(d[2])))
        ELSE Raise("struct.error")

----------------------------------------------------------------------------
(* Decoder specification: the measurement decoding of read_values applied  *)
(* to payloads of every length up to MaxPayloadLen                         *)

\* measurement payloads, cut short or followed by further bytes
DecoderInputs ==
    {Take(d \o [i \in 1..(MaxPayloadLen - 40) |-> i], n) :
        d \in MeasurementData \cup {DataWithField(1, <<63, 128, 0, 0>>)},
        n \in 0..MaxPayloadLen}

InitDecode ==
    /\ op = "decode_measurement" /\ pc = "input"
    /\ DriverIdle
    /\ payload \in DecoderInputs
    /\ viaStuff = FALSE /\ stuffed = <<>> /\ unstuffed = <<>>

\* the try/except block of read_values, on either build
DecodeStep ==
    /\ op = "decode_measurement" /\ pc = "input"
    /\ \E exact \in BOOLEAN : result' = DecodePayload(payload, exact)
    /\ pc' = "done"
    /\ UNCHANGED <<op, rx, pending, written, flushed, length, want, data,
                   consumed, reads, timedOut, readret, preloaded, stream,
                   stale, tookStale, drained, emptyOnTimeout>>
    /\ UNCHANGED codecVars

NextDecode == DecodeStep

SpecDecode == InitDecode /\ [][NextDecode]_vars

----------------------------------------------------------------------------
(* The driver methods *)

\* every method starting with flush_input
FirstStepAlwaysFlush(o) == "flush_any"

\* no method starting with flush_input
FirstStepNeverFlush(o) == "write"

\* the first statement of each method: uart.write in start and stop,
\* flush_input in the others
FirstStep(o) == IF o \in WriteOnlyOps THEN "write" ELSE "flush_any"

\* a method is called; the previous one, if any, has returned
Call(o) ==
    /\ pc \in {"idle", "done"}
    /\ op' = o
    /\ pc' = FirstStep(o)
    /\ preloaded' = (o = "read_values" /\ pending = <<>>
                        /\ rx = MeasurementResponse(ZeroData))
    /\ written' = <<>> /\ flushed' = FALSE
    /\ length' = 0 /\ want' = 0 /\ data' = <<>> /\ consumed' = <<>>
    /\ reads' = 0 /\ timedOut' = FALSE /\ readret' = None /\ result' = None
    /\ stale' = Len(rx) + Len(pending)
    /\ tookStale' = FALSE /\ drained' = FALSE
    /\ UNCHANGED <<rx, pending, stream, emptyOnTimeout>>
    /\ UNCHANGED codecVars

\* flush_input: `if self.uart.any()` finds bytes
FlushAnyTrue ==
    /\ pc = "flush_any"
    /\ rx # <<>>
    /\ flushed' = TRUE
    /\ pc' = "flush_read"
    /\ UNCHANGED <<op, rx, pending, written, length, want, data, consumed,
                   reads, timedOut, readret, result, preloaded, stream,
                   stale, tookStale, drained, emptyOnTimeout>>
    /\ UNCHANGED codecVars

\* a flush_input that calls uart.read() without asking uart.any()
FlushAnyFalseReads ==
    /\ pc = "flush_any"
    /\ rx = <<>>
    /\ flushed' = TRUE
    /\ pc' = "flush_read"
    /\ UNCHANGED <<op, rx, pending, written, length, want, data, consumed,
                   reads, timedOut, readret, result, preloaded, stream,
                   stale, tookStale, drained, emptyOnTimeout>>
    /\ UNCHANGED codecVars

\* flush_input: `if self.uart.any()` finds none
FlushAnyFalse ==
    /\ pc = "flush_any"
    /\ rx = <<>>
    /\ flushed' = TRUE
    /\ pc' = "write"
    /\ UNCHANGED <<op, rx, pending, written, length, want, data, consumed,
                   reads, timedOut, readret, result, preloaded, stream,
                   stale, tookStale, drained, emptyOnTimeout>>
    /\ UNCHANGED codecVars

\* flush_input: self.uart.read() takes everything that is buffered
FlushRead ==
    /\ pc = "flush_read"
    /\ rx' = <<>>
    /\ stale' = Max(stale - Len(rx), 0)
    /\ drained' = TRUE
    /\ pc' = "write"
    /\ UNCHANGED <<op, pending, written, flushed, length, want, data, consumed,
                   reads, timedOut, readret, result, preloaded, stream,
                   tookStale, emptyOnTimeout>>
    /\ UNCHANGED codecVars

\* where a method continues after uart.write
AfterWrite(o) ==
    IF o \in WriteOnlyOps THEN "oflush"
    ELSE IF o = "read_values" THEN "read" ELSE "single_read"

\* uart.write(frame); the sensor answers the request, or leaves it unanswered
\* (it answers one request at a time: none while it is still sending)
Write ==
    /\ pc = "write"
    /\ written' = Append(written, RequestFrame(op))
    /\ \/ pending' = pending
       \/ \E r \in Responses(op) :
            /\ pending = <<>>
            /\ Len(rx) + Len(r) <= MaxInFlight
            /\ pending' = pending \o r
    /\ pc' = AfterWrite(op)
    /\ length' = IF op = "read_values" THEN MeasurementFrameLength ELSE length
    /\ want' = length'
    /\ UNCHANGED <<op, rx, flushed, data, consumed, reads, timedOut, readret,
                   result, preloaded, stream,
                   stale, tookStale, drained, emptyOnTimeout>>
    /\ UNCHANGED codecVars

\* start, stop: uart.flush() waits for the frame to be sent; the method returns
OutputFlush ==
    /\ pc = "oflush"
    /\ result' = None
    /\ pc' = "done"
    /\ UNCHANGED <<op, rx, pending, written, flushed, length, want, data,
                   consumed, reads, timedOut, readret, preloaded, stream,
                   stale, tookStale, drained, emptyOnTimeout>>
    /\ UNCHANGED codecVars

\* a read_values that answers a timeout with the tuple of zeros
ReadValuesResultZeroOnTimeout(ret, exact) ==
    IF ret = None THEN FallbackTuple ELSE DecodeMeasurement(ret.val, exact)

\* `if raw is None: return None`, else slice, unpack and return
ReadValuesResult(ret, exact) ==
    IF ret = None THEN None ELSE DecodeMeasurement(ret.val, exact)

\* read_values after read(47): None on timeout, else slice and unpack
ReadValuesDecode ==
    /\ pc = "rv_check"
    /\ \E exact \in BOOLEAN : result' = ReadValuesResult(readret, exact)
    /\ pc' = "done"
    /\ UNCHANGED <<op, rx, pending, written, flushed, length, want, data,
                   consumed, reads, timedOut, readret, preloaded, stream,
                   stale, tookStale, drained, emptyOnTimeout>>
    /\ UNCHANGED codecVars

\* a read that is repeated until n raw bytes were asked for in full
AfterSingleReadLoop(raw) ==
    IF Len(raw) < SingleReadLength(op) THEN "single_read" ELSE "decode"

\* after the single uart.read(n): no loop, on to destuffing and decoding
AfterSingleRead(raw) == "decode"

\* the single uart.read(n) of the identification reads returns what arrived
SingleRead ==
    /\ pc = "single_read"
    /\ rx # <<>>
    /\ LET raw == Take(rx, SingleReadLength(op))
       IN  /\ rx' = Drop(rx, SingleReadLength(op))
           /\ consumed' = raw
           /\ data' = reverse_byte_stuffing(raw)
           /\ pc' = AfterSingleRead(raw)
           /\ stale' = Max(stale - Len(raw), 0)
    /\ tookStale' = (tookStale \/ stale > 0)
    /\ reads' = Min(reads + 1, ReadsCap)
    /\ UNCHANGED <<op, pending, written, flushed, length, want, timedOut,
                   readret, result, preloaded, stream, drained, emptyOnTimeout>>
    /\ UNCHANGED codecVars

\* the single uart.read(n) returns None: the method returns None
SingleReadTimeout ==
    /\ pc = "single_read"
    /\ rx = <<>>
    /\ ~emptyOnTimeout
    /\ timedOut' = TRUE
    /\ reads' = Min(reads + 1, ReadsCap)
    /\ result' = None
    /\ pc' = "done"
    /\ UNCHANGED <<op, rx, pending, written, flushed, length, want, data,
                   consumed, readret, preloaded, stream,
                   stale, tookStale, drained, emptyOnTimeout>>
    /\ UNCHANGED codecVars

\* slice, decode and return
SingleDecode ==
    /\ pc = "decode"
    /\ \E exact \in BOOLEAN :
          result' = IF op = "read_firmware_version"
                    THEN DecodeFirmware(data, exact)
                    ELSE DecodeText(data)
    /\ pc' = "done"
    /\ UNCHANGED <<op, rx, pending, written, flushed, length, want, data,
                   consumed, reads, timedOut, readret, preloaded, stream,
                   stale, tookStale, drained, emptyOnTimeout>>
    /\ UNCHANGED codecVars

Init ==
    /\ op = "none" /\ pc = "idle"
    /\ DriverIdle
    /\ CodecIdle

Next ==
    \/ \E o \in Ops : Call(o)
    \/ FlushAnyTrue
    \/ FlushAnyFalse
    \/ FlushRead
    \/ Write
    \/ OutputFlush
    \/ SensorDeliver
    \/ ReadChunk
    \/ ReadTimeout
    \/ ReadReturn
    \/ ReadValuesDecode
    \/ SingleRead
    \/ SingleReadTimeout
    \/ SingleDecode

Spec == Init /\ [][Next]_vars

----------------------------------------------------------------------------
(* Properties of the codec *)

\* one left-to-right pass over the input that replaces each occurrence of a
\* stuffed two-byte sequence by its single byte
RECURSIVE UnstuffEachOccurrence(_)
UnstuffEachOccurrence(raw) ==
    IF Len(raw) = 0 THEN <<>>
    ELSE IF Len(raw) >= 2 /\ raw[1] = 125 /\ raw[2] \in {94, 93, 49, 51}
         THEN <<CASE raw[2] = 94 -> 126
                  [] raw[2] = 93 -> 125
                  [] raw[2] = 49 -> 17
                  [] raw[2] = 51 -> 19>>
              \o UnstuffEachOccurrence(SubSeq(raw, 3, Len(raw)))
         ELSE <<raw[1]>> \o UnstuffEachOccurrence(Tail(raw))

HasStuffed(raw) ==
    \E b \in {94, 93, 49, 51} : Contains(raw, 125, b)

\* C1: round trip -- forward stuffing of any byte string followed by
\* reverse_byte_stuffing gives the byte string back
C1_RoundTrip ==
    (op = "reverse_byte_stuffing" /\ pc = "done" /\ viaStuff)
        => unstuffed = payload

\* C2: reverse_byte_stuffing replaces every occurrence of the four stuffed
\* sequences in its input by the corresponding single byte, and returns an
\* input without any of them unchanged
C2_ReplacesEachOccurrence ==
    (op = "reverse_byte_stuffing" /\ pc = "done")
        => /\ unstuffed = UnstuffEachOccurrence(stuffed)
           /\ (~HasStuffed(stuffed) => unstuffed = stuffed)

----------------------------------------------------------------------------
(* Properties of the read loop *)

\* C3: the buffer read(length) returns is the stuffing reversal of the
\* concatenation of the raw chunks it consumed, however the stream is split
C3_FragmentationIndependent ==
    (op = "read" /\ pc = "done" /\ readret # None)
        => readret = Bytes(reverse_byte_stuffing(consumed))

\* C4: a response of `length` bytes without stuffed sequences, delivered in
\* any number of non-empty chunks, is returned whole and in arrival order
C4_Reassembles ==
    (op = "read" /\ pc = "done" /\ ~timedOut
        /\ Len(stream) = want /\ ~HasStuffed(stream))
        => readret = Bytes(stream)

C4_Witness ==
    /\ op = "read" /\ pc = "done" /\ ~timedOut
    /\ Len(stream) = want /\ ~HasStuffed(stream)
    /\ want = 2 /\ reads = 2
    /\ readret = Bytes(stream)

\* C5: read(length) returns None, and nothing of what it accumulated, once
\* a uart.read of it returned None, be it the first one or a later one
C5_TimeoutReturnsNone ==
    (op = "read" /\ pc = "done" /\ timedOut) => readret = None

C5_Witness ==
    /\ op = "read" /\ pc = "done" /\ timedOut
    /\ data # <<>> /\ reads >= 2
    /\ readret = None

----------------------------------------------------------------------------
(* Properties of the driver methods *)

IsPrefix(s, t) == Len(s) <= Len(t) /\ SubSeq(t, 1, Len(s)) = s

\* C6 as stated: every public method has called flush_input by the time it
\* writes its request frame
C6_EveryOpFlushesBeforeWrite ==
    (op \in Ops /\ written # <<>>) => flushed

\* C6 as amended: the four reading methods have called flush_input by the
\* time they write their request frame; start and stop never call it
C6_ReadOpsFlushBeforeWrite ==
    /\ (op \in ReadOps /\ written # <<>>) => flushed
    /\ op \in WriteOnlyOps => ~flushed

C6_Witness ==
    /\ op = "read_product_type" /\ pc = "single_read"
    /\ written = <<ProductTypeFrame>> /\ flushed

\* the frame starts and ends with 0x7E and its last-but-one byte is the
\* bitwise NOT of the low byte of the sum of the bytes between the start
\* marker and the checksum
WellFormedFrame(f) ==
    /\ Len(f) >= 5
    /\ f[1] = 126 /\ f[Len(f)] = 126
    /\ f[Len(f) - 1] = 255 - (SumSeq(SubSeq(f, 2, Len(f) - 2)) % 256)

\* C7: every frame written is delimited by 0x7E and carries the SHDLC
\* checksum; start and stop write their documented fixtures
C7_FramesWellFormed ==
    \A i \in 1..Len(written) :
        /\ WellFormedFrame(written[i])
        /\ op = "start" => written[i] = <<126, 0, 0, 2, 1, 3, 249, 126>>
        /\ op = "stop" => written[i] = <<126, 0, 1, 0, 254, 126>>

C7_Witness ==
    /\ op = "start" /\ pc = "done"
    /\ written = <<<<126, 0, 0, 2, 1, 3, 249, 126>>>>

\* C8: start and stop write once, read nothing and take no byte out of the
\* UART input
C8_StartStopOnlyWrite ==
    /\ [](op \in WriteOnlyOps =>
            /\ reads = 0
            /\ Len(written) <= 1
            /\ pc = "done" => Len(written) = 1)
    /\ [][op' \in WriteOnlyOps => IsPrefix(rx, rx')]_vars

C8_Witness ==
    /\ op = "stop" /\ pc = "done"
    /\ Len(written) = 1 /\ reads = 0
    /\ Len(rx) >= 14

\* C9: read_values writes its request once per invocation and returns None
\* after a timeout, without a second write
C9_ReadValuesNoRetry ==
    op = "read_values" =>
        /\ written \in {<<>>, <<ReadValuesFrame>>}
        /\ pc \in {"read", "rv_check", "done"} => written = <<ReadValuesFrame>>
        /\ (pc = "done" /\ timedOut) => result = None

C9_Witness ==
    /\ op = "read_values" /\ pc = "done" /\ timedOut
    /\ data # <<>>
    /\ written = <<ReadValuesFrame>> /\ result = None

\* the ten fields of a 40-byte payload, in order
FieldsOf(d) ==
    [i \in 1..10 |-> FloatOf(d[4 * i - 3], d[4 * i - 2], d[4 * i - 1], d[4 * i])]

\* C10 as stated: called with the documented 47-byte response (all data
\* bytes zero) preloaded in the UART input, read_values returns ten zeros
C10_PreloadedResponseDecoded ==
    (op = "read_values" /\ pc = "done" /\ preloaded) => result = FallbackTuple

\* C10 as amended: when read(47) returns a buffer, read_values returns the
\* ten big-endian fields of its bytes 5..44, in order -- ten zeros when they
\* are all zero -- and so decodes the documented response when it arrives
\* after the request was written
C10_DecodesBufferFields ==
    (op = "read_values" /\ pc = "done" /\ ~timedOut) =>
        /\ readret.kind = "bytes" /\ Len(readret.val) = 47
        /\ result = Tuple(FieldsOf(SubSeq(readret.val, 6, 45)))
        /\ (\A i \in 6..45 : readret.val[i] = 0)
              => result = Tuple([i \in 1..10 |-> ZeroFloat])
        /\ \A d \in MeasurementData :
              (readret.val = <<126, 0, 3, 0, 40>> \o d \o <<Checksum(<<3, 40>> \o d), 126>>)
                  => result = Tuple(FieldsOf(d))

C10_Witness ==
    /\ op = "read_values" /\ pc = "done" /\ ~timedOut
    /\ consumed = MeasurementResponse(ZeroData) /\ Len(consumed) = 47
    /\ reads = 2
    /\ result = Tuple([i \in 1..10 |-> ZeroFloat])

----------------------------------------------------------------------------
(* Properties of the decoders *)

C12_FirmwareVersionString ==
    (op = "read_firmware_version" /\ pc = "done" /\ ~timedOut /\ Len(data) = 14) =>
        LET major == IF data[6] >= 128 THEN data[6] - 256 ELSE data[6]
            minor == IF data[7] >= 128 THEN data[7] - 256 ELSE data[7]
        IN  /\ result = Str(IntToStr(major) \o "." \o IntToStr(minor))
            /\ (data[6] = 1 /\ data[7] = 2) => result = Str("1.2")
            /\ (data[6] = 2 /\ data[7] = 255) => result = Str("2.-1")

C12_Witness ==
    /\ op = "read_firmware_version" /\ pc = "done" /\ ~timedOut
    /\ Len(data) = 14 /\ data[6] = 2 /\ data[7] = 255
    /\ result = Str("2.-1")

----------------------------------------------------------------------------
(* Properties of the identification reads *)

\* the fields of a request frame: 0x7E, address, command, length, payload
FrameCommand(f) == f[3]
FrameLength(f) == f[4]
FrameSubcommand(f) == f[5]

\* C13 as stated: read_product_type sends command 0xD0 with subcommand 0x01,
\* read_serial_number command 0xD0 with subcommand 0x03
C13_InfoSubcommands ==
    \A i \in 1..Len(written) :
        /\ op = "read_product_type" =>
              FrameCommand(written[i]) = 208 /\ FrameSubcommand(written[i]) = 1
        /\ op = "read_serial_number" =>
              FrameCommand(written[i]) = 208 /\ FrameSubcommand(written[i]) = 3

\* C13 as amended: both send command 0xD0 with a one-byte payload (length
\* byte 0x01), the subcommand: 0x00 for read_product_type, 0x03 for
\* read_serial_number
C13_InfoRequestFields ==
    \A i \in 1..Len(written) :
        /\ op = "read_product_type" =>
              /\ FrameCommand(written[i]) = 208
              /\ FrameLength(written[i]) = 1
              /\ FrameSubcommand(written[i]) = 0
        /\ op = "read_serial_number" =>
              /\ FrameCommand(written[i]) = 208
              /\ FrameLength(written[i]) = 1
              /\ FrameSubcommand(written[i]) = 3

C13_Witness ==
    /\ op = "read_product_type" /\ pc = "done"
    /\ written = <<<<126, 0, 208, 1, 0, 46, 126>>>>
    /\ result = Str(ProductTypeText)

\* C14: the identification reads issue one uart.read(n) after the write,
\* bounded by 24, 24 and 14 bytes; what that one read returned is destuffed
\* and decoded, the rest of a response that arrives in pieces is not read
C14_SingleReadOnce ==
    op \in SingleReadOps =>
        /\ reads <= 1
        /\ pc \in {"decode", "done"} => reads = 1
        /\ Len(consumed) <= SingleReadLength(op)
        /\ SingleReadLength(op) = IF op = "read_firmware_version" THEN 14 ELSE 24
        /\ (pc = "done" /\ ~timedOut) =>
              /\ data = reverse_byte_stuffing(consumed)
              /\ result \in {IF op = "read_firmware_version"
                             THEN DecodeFirmware(data, exact)
                             ELSE DecodeText(data) : exact \in BOOLEAN}

C14_Witness ==
    /\ op = "read_serial_number" /\ pc = "done" /\ ~timedOut
    /\ reads = 1
    /\ rx \o pending # <<>>
    /\ consumed \o rx \o pending = SensorFrame(208, Append(SerialNumberText, 0))
    /\ result = DecodeText(reverse_byte_stuffing(consumed))

\* C15: read_firmware_version returns a version string only when its one
\* read, destuffed, holds exactly 14 bytes; any other read that did not time
\* out ends in the exception of struct.unpack, which reaches the caller
C15_FirmwareExactLength ==
    (op = "read_firmware_version" /\ pc = "done" /\ ~timedOut) =>
        IF Len(data) = 14 THEN result.kind = "str" ELSE result.kind = "raise"

C15_Witness ==
    /\ op = "read_firmware_version" /\ pc = "done" /\ ~timedOut
    /\ Len(data) \in 8..13
    /\ result.kind = "raise"

----------------------------------------------------------------------------
(* Properties of the driver against a concurrent sensor *)

\* C16: a reading method that returns without a timeout has consumed only
\* bytes the sensor sent in reply to that invocation's own request
C16_DecodesOwnReplyOnly ==
    (op \in ReadOps /\ pc = "done" /\ ~timedOut) => ~tookStale

----------------------------------------------------------------------------
(* Further properties of the read loop *)

\* C17: in read(length) the bytes accumulated plus the deficit make the
\* length asked for, the deficit is never negative, and a return that is not
\* a timeout holds exactly that many bytes
C17_DeficitInvariant ==
    op = "read" =>
        /\ Len(data) + length = want
        /\ length >= 0
        /\ (pc = "done" /\ readret # None) => Len(readret.val) = want

C17_Witness ==
    /\ op = "read" /\ pc = "done" /\ readret # None
    /\ want = 3 /\ Len(readret.val) = 3
    /\ Len(consumed) = 4 /\ reads = 2

\* C18: read(length) terminates on every transport the contract allows, also
\* on one whose read returns zero bytes instead of None
C18_ReadTerminates == <>(pc = "done")

----------------------------------------------------------------------------
(* Further properties of the driver methods *)

\* C19: in read_values a read that did not time out hands exactly 40 bytes
\* to the decoder, so the result is their ten fields and never the fallback
\* for a wrong count; fewer than 47 destuffed bytes end in None
C19_PayloadAlways40 ==
    op = "read_values" =>
        /\ (pc \in {"rv_check", "done"} /\ readret # None) =>
              Len(readret.val) - 7 = 40
        /\ pc = "done" =>
              IF timedOut
              THEN result = None
              ELSE result = Tuple(FieldsOf(SubSeq(readret.val, 6, Len(readret.val) - 2)))
        /\ (pc = "done" /\ Len(data) < 47) => result = None

C19_Witness ==
    /\ op = "read_values" /\ pc = "done"
    /\ consumed = <<126, 0, 3, 0, 0, 252, 126>>
    /\ timedOut /\ result = None

\* C20: flush_input calls uart.read() only when uart.any() reports bytes;
\* on an empty input it reads nothing, and when it returns the input is
\* empty (bytes that arrive later are steps of the sensor, after it)
C20_FlushReadsOnlyWhenAvailable ==
    /\ [](drained => flushed)
    /\ [][/\ (pc = "flush_any" /\ pc' = "flush_read") => rx # <<>>
          /\ (pc = "flush_any" /\ pc' = "write") =>
                (rx = <<>> /\ rx' = <<>> /\ ~drained')
          /\ (pc = "flush_read" /\ pc' = "write") =>
                (rx' = <<>> /\ drained')]_vars

C20_Witness ==
    /\ op = "read_values" /\ pc = "write"
    /\ flushed /\ drained
    /\ rx = <<>> /\ pending = <<>>

====
